---- MODULE Spec2Model ----
(***************************************************************************)
(* Model of the LRU cache of src/src/cache/cache.rs: a HashMap             *)
(* (cache_content) and a VecDeque of keys (cache_order) behind the three   *)
(* methods of TraitCache: put, get and move_key_end_cache.                 *)
(***************************************************************************)
EXTENDS Integers, Sequences, FiniteSets, TLC

\* ------------------------------------------------------------------ bounds
NumKeys == 4
NumValues == 2
MaxCapacity == 3
\* longest cache_order explored once move_key_end_cache is called from outside
MaxOrderLen == 3

Keys == 1..NumKeys
Values == 1..NumValues

\* ------------------------------------------------------- Option<T> as a set
None == {}
Some(x) == {x}

\* ------------------------------------------------ HashMap<K, V> operations
contains_key(map, key) == key \in DOMAIN map

\* faulty insert: an entry already present keeps its value (entry().or_insert)
insert_keep_old(map, key, value) ==
    [k \in (DOMAIN map) \cup {key} |->
        IF k \in DOMAIN map THEN map[k] ELSE value]

insert(map, key, value) ==
    [k \in (DOMAIN map) \cup {key} |-> IF k = key THEN value ELSE map[k]]

remove(map, key) == [k \in (DOMAIN map) \ {key} |-> map[k]]

map_get(map, key) == IF key \in DOMAIN map THEN Some(map[key]) ELSE None

\* --------------------------------------------------- VecDeque<K> operations
push_back(deque, key) == Append(deque, key)

\* pop_front: the element taken (None on an empty deque) and what is left
front(deque) == IF Len(deque) = 0 THEN None ELSE Some(Head(deque))

without_front(deque) == IF Len(deque) = 0 THEN deque ELSE Tail(deque)

\* retain(|k| k != key)
retain_ne(deque, key) == SelectSeq(deque, LAMBDA k : k # key)

\* ------------------------------------------------------------------- Cache
\* Cache::new(size)
new(capacity) ==
    [size |-> capacity, cache_content |-> <<>>, cache_order |-> <<>>]

\* faulty move_key_end_cache: the retain is missing
move_key_end_cache_no_retain(self, key) ==
    [self EXCEPT !.cache_order = push_back(self.cache_order, key)]

\* faulty move_key_end_cache: the key goes to the front (push_front)
move_key_front_cache(self, key) ==
    [self EXCEPT !.cache_order = <<key>> \o retain_ne(self.cache_order, key)]

\* faulty move_key_end_cache: the retain keeps the key and drops the others
move_key_end_cache_retain_eq(self, key) ==
    [self EXCEPT !.cache_order =
        push_back(SelectSeq(self.cache_order, LAMBDA k : k = key), key)]

\* move_key_end_cache(&mut self, key)
move_key_end_cache(self, key) ==
    [self EXCEPT !.cache_order = push_back(retain_ne(self.cache_order, key), key)]

\* the key put(key, _) takes out of the cache (cle_supprime), if any
cle_supprime(self, key) ==
    IF ~contains_key(self.cache_content, key)
       /\ Len(self.cache_order) >= self.size
    THEN front(self.cache_order)
    ELSE None

\* put with its parts open to change: the key taken out of the deque,
\* whether that key leaves the map, and whether a key already present is
\* moved to the back
put_variant(self, key, value, popped, forget, promote) ==
    IF contains_key(self.cache_content, key)
    THEN LET updated == [self EXCEPT !.cache_content =
                                         insert(self.cache_content, key, value)]
         IN  IF promote THEN move_key_end_cache(updated, key) ELSE updated
    ELSE LET order1 == IF popped = None THEN self.cache_order
                       ELSE retain_ne(self.cache_order, CHOOSE k \in popped : TRUE)
             content1 == IF popped = None \/ ~forget THEN self.cache_content
                         ELSE remove(self.cache_content,
                                     CHOOSE k \in popped : TRUE)
         IN  [self EXCEPT !.cache_order = push_back(order1, key),
                          !.cache_content = insert(content1, key, value)]

\* faulty put: the deque is full only when longer than size (> for >=)
put_gt(self, key, value) ==
    put_variant(self, key, value,
                IF Len(self.cache_order) > self.size
                THEN front(self.cache_order) ELSE None,
                TRUE, TRUE)

\* faulty put: the evicted key stays in cache_content
put_keep_content(self, key, value) ==
    put_variant(self, key, value,
                IF Len(self.cache_order) >= self.size
                THEN front(self.cache_order) ELSE None,
                FALSE, TRUE)

\* faulty put: the newest key is evicted (pop_back for pop_front)
put_pop_back(self, key, value) ==
    put_variant(self, key, value,
                IF Len(self.cache_order) >= self.size /\ Len(self.cache_order) > 0
                THEN Some(self.cache_order[Len(self.cache_order)]) ELSE None,
                TRUE, TRUE)

\* faulty put: a key already present is updated but not moved to the back
put_no_promote(self, key, value) ==
    put_variant(self, key, value,
                IF Len(self.cache_order) >= self.size
                THEN front(self.cache_order) ELSE None,
                TRUE, FALSE)

\* faulty put: the front is popped whether or not the deque is full
put_evict_always(self, key, value) ==
    put_variant(self, key, value, front(self.cache_order), TRUE, TRUE)

\* faulty put: size is kept as the number of keys held
put_counts_size(self, key, value) ==
    LET after == put_variant(self, key, value,
                             IF Len(self.cache_order) >= self.size
                             THEN front(self.cache_order) ELSE None,
                             TRUE, TRUE)
    IN  [after EXCEPT !.size = Len(after.cache_order)]

\* faulty put: a full cache is emptied instead of losing its front
put_clear_full(self, key, value) ==
    IF ~contains_key(self.cache_content, key)
       /\ Len(self.cache_order) >= self.size
    THEN [self EXCEPT !.cache_order = <<key>>,
                      !.cache_content = insert(<<>>, key, value)]
    ELSE put_variant(self, key, value, None, TRUE, TRUE)

\* faulty put: a new key is dropped when the cache is full
put_skip_full(self, key, value) ==
    IF ~contains_key(self.cache_content, key)
       /\ Len(self.cache_order) >= self.size
    THEN self
    ELSE put_variant(self, key, value, None, TRUE, TRUE)

\* faulty put: the front is popped one entry early (len + 1 >= size)
put_evict_early(self, key, value) ==
    put_variant(self, key, value,
                IF Len(self.cache_order) + 1 >= self.size
                THEN front(self.cache_order) ELSE None,
                TRUE, TRUE)

\* put(&mut self, key, value)
put(self, key, value) ==
    IF contains_key(self.cache_content, key)
    THEN move_key_end_cache(
            [self EXCEPT !.cache_content = insert(self.cache_content, key, value)],
            key)
    ELSE LET full == Len(self.cache_order) >= self.size
             popped == IF full THEN front(self.cache_order) ELSE None
             order1 == IF full THEN without_front(self.cache_order)
                               ELSE self.cache_order
             content1 == IF popped = None THEN self.cache_content
                         ELSE remove(self.cache_content,
                                     CHOOSE k \in popped : TRUE)
         IN  [self EXCEPT !.cache_order = push_back(order1, key),
                          !.cache_content = insert(content1, key, value)]

\* faulty get: a hit does not move the key
get_no_promote(self, key) == self

\* faulty get: the key is moved whether or not it is present
get_always_promote(self, key) == move_key_end_cache(self, key)

\* faulty get: a hit takes the entry out of the map (remove for get)
get_remove_hit(self, key) ==
    IF contains_key(self.cache_content, key)
    THEN [move_key_end_cache(self, key) EXCEPT
             !.cache_content = remove(self.cache_content, key)]
    ELSE self

\* get(&mut self, key): the cache after the call
get(self, key) ==
    IF contains_key(self.cache_content, key)
    THEN move_key_end_cache(self, key)
    ELSE self

\* get(&mut self, key): the Option returned
get_ret(self, key) ==
    IF contains_key(self.cache_content, key)
    THEN map_get(get(self, key).cache_content, key)
    ELSE None

\* ------------------------------------------------------------------- state
VARIABLES
    size,           \* Cache.size
    cache_content,  \* Cache.cache_content
    cache_order,    \* Cache.cache_order
    lastCall,       \* the call just made: method, arguments, return value, the
                    \* key it evicted and cache_order as it was before the call
    accessLog,      \* history: keys put or hit by get, oldest last access first
    livePut,        \* history: value of a key's latest put, None once evicted
    callShape       \* history: "distinct_puts" while every call was a put of a
                    \* key not put before, "then_get" after one get following
                    \* such a run, "other" from then on

vars == <<size, cache_content, cache_order, lastCall, accessLog, livePut,
          callShape>>

cache == [size |-> size, cache_content |-> cache_content,
          cache_order |-> cache_order]

\* the cache becomes c
Becomes(c) ==
    /\ size' = c.size
    /\ cache_content' = c.cache_content
    /\ cache_order' = c.cache_order

Range(seq) == {seq[i] : i \in 1..Len(seq)}

\* key was put or hit by get: it becomes the latest of accessLog
Accessed(log, key) == Append(SelectSeq(log, LAMBDA k : k # key), key)

\* the state after Cache::new(capacity), capacity drawn from capacities
InitCapacity(capacities) ==
    /\ \E capacity \in capacities :
          /\ size = new(capacity).size
          /\ cache_content = new(capacity).cache_content
          /\ cache_order = new(capacity).cache_order
    /\ lastCall = [op |-> "new", args |-> <<>>, ret |-> None, evicted |-> None,
                   order_before |-> <<>>]
    /\ accessLog = <<>>
    /\ livePut = [k \in Keys |-> None]
    /\ callShape = "distinct_puts"

Init == InitCapacity(1..MaxCapacity)

Put(key, value) ==
    LET out == cle_supprime(cache, key) IN
    /\ Becomes(put(cache, key, value))
    /\ lastCall' = [op |-> "put", args |-> <<key, value>>, ret |-> None,
                    evicted |-> out, order_before |-> cache_order]
    /\ accessLog' = Accessed(accessLog, key)
    /\ livePut' = [k \in Keys |-> IF k = key THEN Some(value)
                                  ELSE IF k \in out THEN None
                                  ELSE livePut[k]]
    /\ callShape' = IF callShape = "distinct_puts" /\ key \notin Range(accessLog)
                    THEN "distinct_puts" ELSE "other"

Get(key) ==
    /\ Becomes(get(cache, key))
    /\ lastCall' = [op |-> "get", args |-> <<key>>, ret |-> get_ret(cache, key),
                    evicted |-> None, order_before |-> cache_order]
    /\ accessLog' = IF get_ret(cache, key) # None
                    THEN Accessed(accessLog, key) ELSE accessLog
    /\ callShape' = IF callShape = "distinct_puts" THEN "then_get" ELSE "other"
    /\ UNCHANGED livePut

\* move_key_end_cache called through the trait, with any key
MoveKeyEndCache(key) ==
    /\ Len(move_key_end_cache(cache, key).cache_order) <= MaxOrderLen
    /\ Becomes(move_key_end_cache(cache, key))
    /\ lastCall' = [op |-> "move_key_end_cache", args |-> <<key>>,
                    ret |-> None, evicted |-> None, order_before |-> cache_order]
    /\ callShape' = "other"
    /\ UNCHANGED <<accessLog, livePut>>

Next ==
    \/ \E key \in Keys, value \in Values : Put(key, value)
    \/ \E key \in Keys : Get(key)

Spec == Init /\ [][Next]_vars

\* the cache used through every method of TraitCache
NextTrait ==
    \/ \E key \in Keys, value \in Values : Put(key, value)
    \/ \E key \in Keys : Get(key)
    \/ \E key \in Keys : MoveKeyEndCache(key)

SpecTrait == Init /\ [][NextTrait]_vars

\* the cache made by Cache::new(0)
InitZero == InitCapacity({0})

SpecZero == InitZero /\ [][Next]_vars

\* move_key_end_cache called on a resident key, as put and get call it; the
\* call counts as an access of the key
Touch(key) ==
    /\ contains_key(cache_content, key)
    /\ Becomes(move_key_end_cache(cache, key))
    /\ lastCall' = [op |-> "move_key_end_cache", args |-> <<key>>,
                    ret |-> None, evicted |-> None, order_before |-> cache_order]
    /\ accessLog' = Accessed(accessLog, key)
    /\ callShape' = "other"
    /\ UNCHANGED livePut

\* put, get, and move_key_end_cache on resident keys
NextTouch ==
    \/ \E key \in Keys, value \in Values : Put(key, value)
    \/ \E key \in Keys : Get(key)
    \/ \E key \in Keys : Touch(key)

SpecTouch == Init /\ [][NextTouch]_vars

\* ------------------------------------------------------------ vocabulary
Resident == DOMAIN cache_content

Last(seq) == seq[Len(seq)]

NoDuplicates(seq) == \A i, j \in 1..Len(seq) : seq[i] = seq[j] => i = j

CalledPut == lastCall.op = "put"

CalledGet == lastCall.op = "get"

\* the key of the call just made (put and get take the key first)
CallKey == lastCall.args[1]

\* ------------------------------------------------------------------ claims

\* C1: with capacity >= 1, after every put and get the number of entries of
\* cache_content is at most size.
C1_CapacityBound == size >= 1 => Cardinality(Resident) <= size

\* a put has evicted a key from a cache of two or more entries, which is full
C1_Witness ==
    /\ CalledPut
    /\ lastCall.evicted # None
    /\ size >= 2
    /\ Cardinality(Resident) = size

\* C2: in every state reached by put and get, cache_content and cache_order
\* hold the same set of keys and the same number of them.
C2_Consistency ==
    /\ Resident = Range(cache_order)
    /\ Cardinality(Resident) = Len(cache_order)

\* a get hit has followed an eviction: both structures hold size keys
C2_Witness ==
    /\ CalledGet
    /\ lastCall.ret # None
    /\ Len(accessLog) > size
    /\ Len(cache_order) = size
    /\ Resident = Range(cache_order)

\* C9: in every state reached by put and get, no key appears twice in
\* cache_order.
C9_NoDuplicates == NoDuplicates(cache_order)

\* a key already present has been put again in a cache of several keys
C9_Witness ==
    /\ CalledPut
    /\ CallKey \in Range(lastCall.order_before)
    /\ Len(cache_order) >= 2
    /\ NoDuplicates(cache_order)

\* position of a key in a sequence that holds it
Pos(seq, key) == CHOOSE i \in 1..Len(seq) : seq[i] = key

\* the resident key whose last put or get hit is the oldest
LeastRecentResident ==
    CHOOSE k \in Resident :
        \A j \in Resident : Pos(accessLog, k) <= Pos(accessLog, j)

\* cache_order lists the resident keys from least to most recently accessed
RecencyOrdered ==
    cache_order = SelectSeq(accessLog, LAMBDA k : k \in Resident)

\* C3: a put that evicts takes out the resident key whose latest put or get
\* hit is the oldest, which is the front of cache_order; after every call
\* cache_order lists the resident keys from least to most recently accessed.
C3_LruVictim ==
    [][/\ RecencyOrdered'
       /\ (lastCall'.op = "put" /\ lastCall'.evicted # None) =>
              /\ lastCall'.evicted = Some(LeastRecentResident)
              /\ lastCall'.evicted = front(cache_order)
              /\ \A k \in lastCall'.evicted : k \notin DOMAIN cache_content'
      ]_vars

\* a put has evicted from a cache of two or more keys after gets or repeated
\* puts had changed the recency of its keys
C3_Witness ==
    /\ CalledPut
    /\ lastCall.evicted # None
    /\ lastCall.evicted = front(lastCall.order_before)
    /\ size >= 2
    /\ callShape = "other"
    /\ RecencyOrdered

\* size + 1 distinct keys have been put into the new cache and nothing else
\* was called; accessLog is then the keys in the order they were put
PutOneMoreThanFits == callShape = "distinct_puts" /\ Len(accessLog) = size + 1

\* C4: after capacity + 1 distinct keys were put into an empty cache with no
\* get between them, exactly the last capacity keys are resident, the first
\* key put is the one missing, and a get of it that follows returns None.
C4_InsertionOrderEviction ==
    [][PutOneMoreThanFits =>
          /\ Resident = {accessLog[i] : i \in 2..(size + 1)}
          /\ Cardinality(Resident) = size
          /\ accessLog[1] \notin Resident
          /\ (lastCall'.op = "get" /\ lastCall'.args = <<accessLog[1]>>) =>
                 lastCall'.ret = None
      ]_vars

\* the first of MaxCapacity + 1 distinct keys put was looked up right after
\* the last put and the get answered None
C4_Witness ==
    /\ callShape = "then_get"
    /\ size >= 2
    /\ Len(accessLog) = size + 1
    /\ CalledGet
    /\ CallKey = accessLog[1]
    /\ lastCall.ret = None
    /\ Resident = {accessLog[i] : i \in 2..(size + 1)}

\* a sequence with every occurrence of a key left out
Without(seq, key) == SelectSeq(seq, LAMBDA k : k # key)

\* the step is a get that hits: the key ends up last in cache_order and the
\* other keys keep their relative order
GetHitPromotes ==
    (lastCall'.op = "get" /\ lastCall'.ret # None) =>
        LET k == lastCall'.args[1] IN
        /\ Len(cache_order') = Len(cache_order)
        /\ Last(cache_order') = k
        /\ Without(cache_order', k) = Without(cache_order, k)

\* the call just made was a get hit that left the cache full, and the step is
\* a put of a key that is not resident
PutNewAfterGetHit ==
    /\ CalledGet
    /\ lastCall.ret # None
    /\ Len(cache_order) = size
    /\ lastCall'.op = "put"
    /\ lastCall'.args[1] \notin Resident

\* C5 as stated: a get hit moves k to the back of cache_order keeping the
\* order of the other keys, and the put of a new key that follows in a full
\* cache evicts the key that followed k before the get, not k.
C5_AsStated ==
    [][/\ GetHitPromotes
       /\ PutNewAfterGetHit =>
              LET k == CallKey
                  b == lastCall.order_before
              IN  /\ lastCall'.evicted # Some(k)
                  /\ \E i \in 1..(Len(b) - 1) :
                        b[i] = k /\ lastCall'.evicted = Some(b[i + 1])
      ]_vars

\* C5 amended: a get hit moves k to the back of cache_order keeping the order
\* of the other keys; in a full cache of two or more keys the put of a new
\* key that follows evicts the front of the order the get left, which is not
\* k and is the key that followed k when k was at the front.
C5_RecencyPromotion ==
    [][/\ GetHitPromotes
       /\ (PutNewAfterGetHit /\ size >= 2) =>
              LET k == CallKey
                  b == lastCall.order_before
              IN  /\ lastCall'.evicted # Some(k)
                  /\ lastCall'.evicted = Some(cache_order[1])
                  /\ b[1] = k => lastCall'.evicted = Some(b[2])
                  /\ k \in DOMAIN cache_content'
      ]_vars

\* a get has hit the least recently used key of a full cache of three or
\* more keys and left it at the back, the others in their order
C5_Witness ==
    /\ CalledGet
    /\ lastCall.ret # None
    /\ size >= 3
    /\ Len(lastCall.order_before) = size
    /\ lastCall.order_before[1] = CallKey
    /\ cache_order = Tail(lastCall.order_before) \o <<CallKey>>

\* C6: a get of a key that is not resident returns None and leaves
\* cache_content, cache_order and size as they were, on a new empty cache too.
C6_GetMissNoMutation ==
    [][(lastCall'.op = "get" /\ lastCall'.args[1] \notin Resident) =>
          /\ lastCall'.ret = None
          /\ cache_content' = cache_content
          /\ cache_order' = cache_order
          /\ size' = size
      ]_vars

\* a get has missed on a full cache after an eviction, leaving it whole
C6_Witness ==
    /\ CalledGet
    /\ lastCall.ret = None
    /\ CallKey \notin Resident
    /\ Len(accessLog) > size
    /\ Len(cache_order) = size
    /\ cache_order = lastCall.order_before

\* C7: a put on a resident key sets its value, keeps the number of resident
\* entries and the resident keys, evicts nothing even in a full cache, and
\* leaves the key at the back of cache_order.
C7_UpdateInPlace ==
    [][(lastCall'.op = "put" /\ lastCall'.args[1] \in Resident) =>
          LET k == lastCall'.args[1]
              v == lastCall'.args[2]
          IN  /\ k \in DOMAIN cache_content'
              /\ cache_content'[k] = v
              /\ Cardinality(DOMAIN cache_content') = Cardinality(Resident)
              /\ DOMAIN cache_content' = Resident
              /\ Len(cache_order') = Len(cache_order)
              /\ lastCall'.evicted = None
              /\ Last(cache_order') = k
      ]_vars

\* a put has updated the least recently used key of a full cache of two or
\* more keys: nothing was evicted and the key is now last
C7_Witness ==
    /\ CalledPut
    /\ size >= 2
    /\ Len(lastCall.order_before) = size
    /\ lastCall.order_before[1] = CallKey
    /\ lastCall.evicted = None
    /\ Len(cache_order) = size
    /\ Last(cache_order) = CallKey
    /\ cache_content[CallKey] = lastCall.args[2]

\* C8: get(k) returns None when k was never put or was evicted since its
\* latest put, and otherwise the value of the latest put of k.
C8_LookupResult == CalledGet => lastCall.ret = livePut[CallKey]

\* a get has returned a value from a cache that has evicted other keys
C8_Witness ==
    /\ CalledGet
    /\ lastCall.ret # None
    /\ lastCall.ret = livePut[CallKey]
    /\ \E k \in Range(accessLog) : livePut[k] = None

\* a get of an evicted key has returned None
C8_WitnessEvicted ==
    /\ CalledGet
    /\ lastCall.ret = None
    /\ CallKey \in Range(accessLog)

\* cache_content and cache_order hold the same keys, cache_order has no
\* duplicate and cache_content holds at most size entries
CacheInvariants ==
    /\ Resident = Range(cache_order)
    /\ NoDuplicates(cache_order)
    /\ Cardinality(Resident) <= size

\* C10: after any calls of put, get and move_key_end_cache, with keys resident
\* or not, cache_content and cache_order hold the same keys, cache_order has
\* no duplicate and cache_content holds at most size entries.
C10_InvariantsFromOutside == CacheInvariants

\* C11: a cache made by new(0) never stores: after any puts cache_content and
\* cache_order are empty and every get returns None.
C11_ZeroCapacityNeverStores ==
    size = 0 =>
        /\ Resident = {}
        /\ cache_order = <<>>
        /\ CalledGet => lastCall.ret = None

CalledMove == lastCall.op = "move_key_end_cache"

\* C12: new(capacity) gives a cache with empty cache_content and cache_order,
\* and no put, get or move_key_end_cache call changes size.
C12_CapacityFixed ==
    /\ cache_content = <<>>
    /\ cache_order = <<>>
    /\ [][size' = size]_vars

\* move_key_end_cache was called on a cache of the largest capacity that had
\* evicted keys before, and size is what new was given
C12_Witness ==
    /\ CalledMove
    /\ size = MaxCapacity
    /\ Len(accessLog) > size
    /\ livePut[CallKey] = None

\* C13: a put of a key that is not resident evicts exactly the front of
\* cache_order, from cache_order and from cache_content, when the cache holds
\* size entries, and evicts nothing when it holds fewer; either way the key
\* is appended to cache_order and mapped to the value.
C13_EvictionCount ==
    [][(lastCall'.op = "put" /\ lastCall'.args[1] \notin Resident) =>
          LET k == lastCall'.args[1]
              v == lastCall'.args[2]
              kept == IF Cardinality(Resident) = size
                      THEN Tail(cache_order) ELSE cache_order
              gone == IF Cardinality(Resident) = size
                      THEN {Head(cache_order)} ELSE {}
          IN  /\ Cardinality(Resident) <= size
              /\ lastCall'.evicted = gone
              /\ cache_order' = kept \o <<k>>
              /\ DOMAIN cache_content' = (Resident \ gone) \cup {k}
              /\ Cardinality(DOMAIN cache_content') =
                     Cardinality(Resident) - Cardinality(gone) + 1
              /\ cache_content'[k] = v
      ]_vars

\* a put of a new key found room in a cache of two or more entries that
\* already held one, and evicted nothing
C13_Witness ==
    /\ CalledPut
    /\ CallKey \notin Range(lastCall.order_before)
    /\ lastCall.order_before # <<>>
    /\ Len(lastCall.order_before) < size
    /\ lastCall.evicted = None
    /\ cache_order = lastCall.order_before \o <<CallKey>>

\* a put of a new key found the cache of capacity 1 full and evicted its key
C13_WitnessFull ==
    /\ CalledPut
    /\ size = 1
    /\ lastCall.evicted = front(lastCall.order_before)
    /\ lastCall.evicted # None
    /\ cache_order = <<CallKey>>
    /\ Resident = {CallKey}

\* C14: move_key_end_cache(k) on a resident k leaves cache_content, the keys
\* and the length of cache_order and the relative order of the other keys
\* unchanged and makes k the last of cache_order; a second call right after
\* the first changes nothing more.
C14_PromotionOfResident ==
    [][(lastCall'.op = "move_key_end_cache" /\ lastCall'.args[1] \in Resident) =>
          LET k == lastCall'.args[1] IN
          /\ cache_content' = cache_content
          /\ Range(cache_order') = Range(cache_order)
          /\ Len(cache_order') = Len(cache_order)
          /\ Without(cache_order', k) = Without(cache_order, k)
          /\ Last(cache_order') = k
          /\ (CalledMove /\ CallKey = k) => cache_order' = cache_order
      ]_vars

\* move_key_end_cache has moved the first of three or more keys to the back
C14_Witness ==
    /\ CalledMove
    /\ Len(lastCall.order_before) >= 3
    /\ lastCall.order_before[1] = CallKey
    /\ cache_order = Tail(lastCall.order_before) \o <<CallKey>>
    /\ CallKey \in Resident

\* C15: a get of a resident key leaves cache_content, keys and values, and
\* the number of resident entries unchanged, and changes cache_order only by
\* moving the key to the back.
C15_GetHitOnlyRecency ==
    [][(lastCall'.op = "get" /\ lastCall'.args[1] \in Resident) =>
          LET k == lastCall'.args[1] IN
          /\ cache_content' = cache_content
          /\ Cardinality(DOMAIN cache_content') = Cardinality(Resident)
          /\ cache_order' = Without(cache_order, k) \o <<k>>
          /\ lastCall'.ret = Some(cache_content[k])
      ]_vars

\* a get has hit a key in the middle of a full cache of three or more keys
C15_Witness ==
    /\ CalledGet
    /\ lastCall.ret # None
    /\ Len(lastCall.order_before) >= 3
    /\ Len(lastCall.order_before) = size
    /\ lastCall.order_before[2] = CallKey
    /\ Last(cache_order) = CallKey
    /\ cache_order[1] = lastCall.order_before[1]

\* C16: after put(k, v) every resident key other than k was resident before
\* with the same value, and the only key that can have left the cache is the
\* one that was at the front of cache_order.
C16_PutLeavesOthers ==
    [][lastCall'.op = "put" =>
          LET k == lastCall'.args[1] IN
          /\ \A j \in (DOMAIN cache_content') \ {k} :
                j \in Resident /\ cache_content'[j] = cache_content[j]
          /\ \A j \in Resident \ (DOMAIN cache_content') :
                cache_order # <<>> /\ j = Head(cache_order)
      ]_vars

\* a put has evicted the front of a full cache of three or more keys and the
\* other keys are still there
C16_Witness ==
    /\ CalledPut
    /\ size >= 3
    /\ lastCall.evicted # None
    /\ lastCall.evicted = front(lastCall.order_before)
    /\ Resident = (Range(lastCall.order_before) \ lastCall.evicted) \cup {CallKey}
    /\ Cardinality(Resident) = size

\* C17: right after put(k, v), with capacity >= 1, k is resident and last in
\* cache_order, was not evicted by the put, and a get(k) that follows
\* returns v.
C17_ReadYourWrite ==
    [][/\ lastCall'.op = "put" =>
              LET k == lastCall'.args[1]
                  v == lastCall'.args[2]
              IN  /\ k \in DOMAIN cache_content'
                  /\ cache_content'[k] = v
                  /\ cache_order' # <<>>
                  /\ Last(cache_order') = k
                  /\ lastCall'.evicted # Some(k)
       /\ (CalledPut /\ lastCall'.op = "get" /\ lastCall'.args[1] = CallKey) =>
              lastCall'.ret = Some(lastCall.args[2])
      ]_vars

\* a put of a new key into a full cache of two or more entries has evicted
\* another key and left its own key last, mapped to the value put
C17_Witness ==
    /\ CalledPut
    /\ size >= 2
    /\ lastCall.evicted # None
    /\ lastCall.evicted # Some(CallKey)
    /\ CallKey \in Resident
    /\ Last(cache_order) = CallKey
    /\ get_ret(cache, CallKey) = Some(lastCall.args[2])

\* the number of distinct other keys put or hit by get since the latest put
\* or get hit of a key of accessLog
AccessedSince(key) == Len(accessLog) - Pos(accessLog, key)

\* C18: with capacity c >= 1, a key that was put or hit by get is resident
\* as long as fewer than c distinct other keys were put or hit since, and
\* is evicted only once at least c distinct other keys were.
C18_RetentionWindow ==
    \A k \in Range(accessLog) :
        /\ AccessedSince(k) < size => k \in Resident
        /\ k \notin Resident => AccessedSince(k) >= size

\* in a cache of two or more entries that has evicted keys, a key is still
\* resident with size - 1 other keys accessed after it
C18_Witness ==
    /\ size >= 2
    /\ Len(accessLog) > size
    /\ callShape = "other"
    /\ \E k \in Range(accessLog) :
          AccessedSince(k) = size - 1 /\ k \in Resident

\* C19: with capacity >= 1 the number of resident entries never decreases
\* from one call to the next, grows by one on a put of a new key below
\* capacity, and stays at capacity once it has reached it.
C19_OccupancyNeverShrinks ==
    [][/\ Cardinality(DOMAIN cache_content') >= Cardinality(Resident)
       /\ (lastCall'.op = "put" /\ lastCall'.args[1] \notin Resident
            /\ Cardinality(Resident) < size) =>
              Cardinality(DOMAIN cache_content') = Cardinality(Resident) + 1
       /\ Cardinality(Resident) = size =>
              Cardinality(DOMAIN cache_content') = size
      ]_vars

\* a full cache of two or more entries is still full after a put that evicted
C19_Witness ==
    /\ CalledPut
    /\ size >= 2
    /\ lastCall.evicted # None
    /\ Len(lastCall.order_before) = size
    /\ Cardinality(Resident) = size
    /\ Len(accessLog) > size + 1

====
